---- MODULE Spec2Model ----
(***************************************************************************)
(* VPC File Storage Mount Helper: the mount orchestration of               *)
(* mount_ibmshare.py (MountIbmshare.run, mount, process_stunnel_mount,     *)
(* cleanup_stale_conf, kill_stunnel_pid, start_stunnel,                    *)
(* run_stunnel_mount_command) and StunnelConfigCreate.write_file, run by   *)
(* concurrent invocations of the tool on one host that share the lock      *)
(* file, the stunnel config directory, the PID files and the mount table.  *)
(***************************************************************************)
EXTENDS Integers, Sequences, FiniteSets, TLC

\* ------------------------------------------------------------------------
\* Bounds and program constants
\* ------------------------------------------------------------------------

\* The concurrent invocations of the tool on the host.
Procs == {1, 2}

\* Remote paths and remote endpoints a mount may name.
Paths == {"/vol1", "/vol2"}
Endpoints == {"10.0.0.1", "10.0.0.2"}

\* Number of loopback ports the OS can hand out (ports 1..MaxPort).
MaxPort == 2

LOOPBACK_ADDRESS == "127.0.0.1"
MOUNT_PORT == 20049

\* get_free_port's failure value.
NO_PORT == -1

Ports == 1..MaxPort

\* ------------------------------------------------------------------------
\* State
\* ------------------------------------------------------------------------
VARIABLES
    lockHolder,         \* set of invocations holding the system-wide lock (at most one)
    pc,                 \* each invocation's position in run()
    args,               \* each invocation's command line
    ret,                \* run()'s local ret
    port,               \* process_stunnel_mount: port
    mount_port,         \* process_stunnel_mount: mount_port
    config_file_found,  \* process_stunnel_mount: config_file_found
    todo,               \* cleanup_stale_conf: entries scandir has still to yield
    dir,                \* the stunnel config directory: entry name -> entry
    pidFiles,           \* the PID files: identity -> content (a sequence of characters)
    mounts,             \* the OS mount table
    tunnels,            \* the running stunnel processes
    signaled,           \* every pid os.kill was called with
    nextPid,            \* the pid the next spawned stunnel gets
    cmd,                \* each invocation's mount command: none, running, ok, fail, timeout, noout
    hist,               \* per invocation: what it did (read by the properties only)
    call                \* a single call of write_file or kill_stunnel_pid: arguments and result

vars == <<lockHolder, pc, args, ret, port, mount_port, config_file_found, todo,
          dir, pidFiles, mounts, tunnels, signaled, nextPid, cmd, hist, call>>

locals == <<port, mount_port, config_file_found, todo>>
host == <<dir, pidFiles, mounts, tunnels, signaled, nextPid>>

\* ------------------------------------------------------------------------
\* PID file contents: int(file.readline().strip())
\* ------------------------------------------------------------------------
Digits == <<"0", "1", "2", "3", "4", "5", "6", "7", "8", "9">>

IsDigit(c) == \E i \in 1..10 : Digits[i] = c

DigitVal(c) == (CHOOSE i \in 1..10 : Digits[i] = c) - 1

IsSpace(c) == c \in {" ", "\n", "\t"}

\* file.readline(): the text up to and including the first newline.
ReadLine(s) ==
    IF \E i \in 1..Len(s) : s[i] = "\n"
    THEN SubSeq(s, 1, CHOOSE i \in 1..Len(s) : s[i] = "\n" /\ \A j \in 1..(i - 1) : s[j] # "\n")
    ELSE s

\* str.strip(): leading and trailing white space removed.
Strip(s) ==
    IF \A i \in 1..Len(s) : IsSpace(s[i])
    THEN <<>>
    ELSE LET first == CHOOSE i \in 1..Len(s) : ~IsSpace(s[i]) /\ \A j \in 1..(i - 1) : IsSpace(s[j])
             last == CHOOSE i \in 1..Len(s) : ~IsSpace(s[i]) /\ \A j \in (i + 1)..Len(s) : IsSpace(s[j])
         IN SubSeq(s, first, last)

RECURSIVE DigitsValue(_)
DigitsValue(s) ==
    IF s = <<>> THEN 0 ELSE 10 * DigitsValue(SubSeq(s, 1, Len(s) - 1)) + DigitVal(s[Len(s)])

\* int(text): an optional sign and at least one decimal digit; anything else
\* raises ValueError (ok = FALSE).
ParseInt(s) ==
    LET body == IF s # <<>> /\ s[1] \in {"-", "+"} THEN Tail(s) ELSE s
        neg == s # <<>> /\ s[1] = "-"
    IN IF body # <<>> /\ \A i \in 1..Len(body) : IsDigit(body[i])
       THEN [ok |-> TRUE, val |-> IF neg THEN 0 - DigitsValue(body) ELSE DigitsValue(body)]
       ELSE [ok |-> FALSE, val |-> 0]

\* What stunnel writes to its PID file: the decimal pid and a newline.
RECURSIVE FormatNat(_)
FormatNat(n) == IF n < 10 THEN <<Digits[n + 1]>> ELSE FormatNat(n \div 10) \o <<Digits[(n % 10) + 1]>>

PidFileText(pid) == FormatNat(pid) \o <<"\n">>

\* ------------------------------------------------------------------------
\* The config directory and the mount table
\* ------------------------------------------------------------------------

\* is_share_mounted's default port argument (port=""): any port.
ANY_PORT == 0

\* The directory entry a remote path's config is written to: its identity is a
\* function of the remote path alone, and it carries the product extension and
\* the product signature.
get_config_file_from_remote_path(remote_path) ==
    [id |-> remote_path, ext |-> TRUE, sig |-> TRUE]

\* The PID file named in the config of a remote path ("" when a config names none).
PidFileName(remote_path) == remote_path

\* A StunnelConfigGet that found nothing.
NotFound ==
    [found |-> FALSE, remote_path |-> "", connect_ip |-> "", accept_port |-> 0,
     pid_file |-> "", config_file |-> get_config_file_from_remote_path("")]

\* StunnelConfigGet.parse_with_full_path: the fields of a config entry, or
\* NotFound for an entry that does not parse as a product config.
parse_with_full_path(d, name) ==
    IF name \in DOMAIN d /\ d[name].is_file /\ d[name].parses
    THEN [found |-> TRUE, remote_path |-> d[name].remote_path,
          connect_ip |-> d[name].connect_ip, accept_port |-> d[name].accept_port,
          pid_file |-> d[name].pid_file, config_file |-> name]
    ELSE NotFound

\* StunnelConfigGet.open_with_remote_path: the config of a remote path.
open_with_remote_path(d, mount_path) ==
    parse_with_full_path(d, get_config_file_from_remote_path(mount_path))

is_share_mounted(mnts, ip_address, mount_path, p) ==
    \E m \in mnts :
        /\ m.ip = ip_address /\ m.mount_path = mount_path
        /\ (p = ANY_PORT \/ p = m.mount_port)

\* ------------------------------------------------------------------------
\* pid_from_file, kill_stunnel_pid
\* ------------------------------------------------------------------------

\* pid_from_file: the result is a set, empty for None, else the one pid.
MutPidFromFileAnySign(files, pid_file) ==
    IF pid_file \notin DOMAIN files
    THEN {}
    ELSE LET r == ParseInt(Strip(ReadLine(files[pid_file])))
         IN IF r.ok THEN {r.val} ELSE {}

pid_from_file(files, pid_file) ==
    IF pid_file \notin DOMAIN files
    THEN {}
    ELSE LET r == ParseInt(Strip(ReadLine(files[pid_file])))
         IN IF r.ok /\ r.val > 0 THEN {r.val} ELSE {}

Remove(f, k) == [x \in DOMAIN f \ {k} |-> f[x]]

AlivePids(tun) == {t.pid : t \in tun}

\* kill_stunnel_pid(st): result is what it returns, killed the pids os.kill was
\* called with, files the PID files afterwards. os.kill raises when no process
\* has the pid; os.remove(pid_file) fails when rmPidOk is FALSE.
MutKillStunnelPidNoFinally(st, files, tun, rmPidOk) ==
    IF ~st.found
    THEN [result |-> FALSE, killed |-> {}, files |-> files]
    ELSE IF st.pid_file = ""
    THEN [result |-> TRUE, killed |-> {}, files |-> files]
    ELSE LET pid == pid_from_file(files, st.pid_file)
             toKill == {n \in pid : n # 0}
             raised == \E n \in toKill : n \notin AlivePids(tun)
         IN [result |-> ~raised,
             killed |-> toKill,
             files |-> IF rmPidOk /\ ~raised THEN Remove(files, st.pid_file) ELSE files]

kill_stunnel_pid(st, files, tun, rmPidOk) ==
    IF ~st.found
    THEN [result |-> FALSE, killed |-> {}, files |-> files]
    ELSE IF st.pid_file = ""
    THEN [result |-> TRUE, killed |-> {}, files |-> files]
    ELSE LET pid == pid_from_file(files, st.pid_file)
             toKill == {n \in pid : n # 0}
             raised == \E n \in toKill : n \notin AlivePids(tun)
         IN [result |-> ~raised,
             killed |-> toKill,
             files |-> IF rmPidOk THEN Remove(files, st.pid_file) ELSE files]

\* A single call that has not been made.
NoCall == [fn |-> "none", done |-> FALSE, in |-> <<>>, out |-> <<>>]

\* ------------------------------------------------------------------------
\* StunnelConfigCreate.write_file, start_stunnel
\* ------------------------------------------------------------------------

\* What open(filepath, "w") and file.write do: both succeed; open raises (the
\* file is as it was); open succeeds, which leaves the file empty, and the
\* write raises.
WriteOutcomes == {"ok", "open_raises", "write_raises"}

\* A file open(filepath, "w") has truncated and nothing was written to.
TruncatedEntry ==
    [is_file |-> TRUE, parses |-> FALSE, remote_path |-> "", connect_ip |-> "",
     accept_port |-> 0, pid_file |-> ""]

\* write_file: valid is is_valid() afterwards, dir the directory afterwards.
\* An empty field is "" for a string and 0 for a port.
MutWriteFileNoFieldCheck(accept_ip, accept_port, connect_ip, connect_port, remote_path, d, wr) ==
    IF wr = "open_raises"
    THEN [valid |-> FALSE, dir |-> d]
    ELSE IF wr = "write_raises"
    THEN [valid |-> FALSE,
          dir |-> (get_config_file_from_remote_path(remote_path) :> TruncatedEntry) @@ d]
    ELSE [valid |-> TRUE,
          dir |-> (get_config_file_from_remote_path(remote_path) :>
                     [is_file |-> TRUE, parses |-> TRUE, remote_path |-> remote_path,
                      connect_ip |-> connect_ip, accept_port |-> accept_port,
                      pid_file |-> PidFileName(remote_path)]) @@ d]

write_file(accept_ip, accept_port, connect_ip, connect_port, remote_path, d, wr) ==
    IF \/ accept_ip = "" \/ accept_port = 0 \/ connect_port = 0
       \/ connect_ip = "" \/ remote_path = ""
    THEN [valid |-> FALSE, dir |-> d]
    ELSE IF wr = "open_raises"
    THEN [valid |-> FALSE, dir |-> d]
    ELSE IF wr = "write_raises"
    THEN [valid |-> FALSE,
          dir |-> (get_config_file_from_remote_path(remote_path) :> TruncatedEntry) @@ d]
    ELSE [valid |-> TRUE,
          dir |-> (get_config_file_from_remote_path(remote_path) :>
                     [is_file |-> TRUE, parses |-> TRUE, remote_path |-> remote_path,
                      connect_ip |-> connect_ip, accept_port |-> accept_port,
                      pid_file |-> PidFileName(remote_path)]) @@ d]

\* start_stunnel(port, ip_address, mount_path). spawn is what running the
\* stunnel binary does: "ok" (exit 0: the daemon runs and has written its PID
\* file), "nonzero" (exit status not 0), "raise" (subprocess.run raises an
\* exception that is not CalledProcessError, e.g. the binary is missing).
start_stunnel(p, ip_address, mount_path, d, files, tun, pid, wr, spawn) ==
    LET w == write_file(LOOPBACK_ADDRESS, p, ip_address, MOUNT_PORT, mount_path, d, wr)
    IN IF ~w.valid
       THEN [status |-> "fail", dir |-> w.dir, files |-> files, tunnels |-> tun, spawned |-> {}]
       ELSE IF spawn = "ok"
       THEN [status |-> "ok", dir |-> w.dir,
             files |-> (PidFileName(mount_path) :> PidFileText(pid)) @@ files,
             tunnels |-> tun \cup {[pid |-> pid, path |-> mount_path, ep |-> ip_address, port |-> p]},
             spawned |-> {pid}]
       ELSE [status |-> IF spawn = "raise" THEN "raise" ELSE "fail",
             dir |-> w.dir, files |-> files, tunnels |-> tun, spawned |-> {}]

\* ------------------------------------------------------------------------
\* cleanup_stale_conf: one directory entry
\* ------------------------------------------------------------------------

\* The body of cleanup_stale_conf's loop for the entry `name`. mountsOk is FALSE
\* when reading the mount table raises, rmPidOk / rmConfOk are FALSE when
\* removing the PID file / the config file fails. raised: an exception leaves
\* the loop; rmFailed: RemoveFile was called and the file stayed.
MutCleanupEntrySkipWithoutPid(name, d, files, mnts, tun, mountsOk, rmPidOk, rmConfOk) ==
    LET same == [raised |-> FALSE, dir |-> d, files |-> files, killed |-> {}, rmFailed |-> FALSE]
        st == parse_with_full_path(d, name)
        k == kill_stunnel_pid(st, files, tun, rmPidOk)
    IN IF ~(d[name].is_file /\ name.ext /\ name.sig) \/ ~st.found
       THEN same
       ELSE IF st.remote_path # "" /\ ~mountsOk
       THEN [same EXCEPT !.raised = TRUE]
       ELSE IF st.remote_path # "" /\ is_share_mounted(mnts, LOOPBACK_ADDRESS, st.remote_path, ANY_PORT)
       THEN same
       ELSE IF k.killed = {}
       THEN same
       ELSE [raised |-> FALSE,
             dir |-> IF rmConfOk THEN Remove(d, name) ELSE d,
             files |-> k.files, killed |-> k.killed, rmFailed |-> ~rmConfOk]

MutCleanupEntryNoSignature(name, d, files, mnts, tun, mountsOk, rmPidOk, rmConfOk) ==
    LET same == [raised |-> FALSE, dir |-> d, files |-> files, killed |-> {}, rmFailed |-> FALSE]
        st == parse_with_full_path(d, name)
        k == kill_stunnel_pid(st, files, tun, rmPidOk)
    IN IF ~(d[name].is_file /\ name.ext) \/ ~st.found
       THEN same
       ELSE IF st.remote_path # "" /\ ~mountsOk
       THEN [same EXCEPT !.raised = TRUE]
       ELSE IF st.remote_path # "" /\ is_share_mounted(mnts, LOOPBACK_ADDRESS, st.remote_path, ANY_PORT)
       THEN same
       ELSE [raised |-> FALSE,
             dir |-> IF rmConfOk THEN Remove(d, name) ELSE d,
             files |-> k.files, killed |-> k.killed, rmFailed |-> ~rmConfOk]

cleanup_entry(name, d, files, mnts, tun, mountsOk, rmPidOk, rmConfOk) ==
    LET same == [raised |-> FALSE, dir |-> d, files |-> files, killed |-> {}, rmFailed |-> FALSE]
        st == parse_with_full_path(d, name)
        k == kill_stunnel_pid(st, files, tun, rmPidOk)
    IN IF ~(d[name].is_file /\ name.ext /\ name.sig) \/ ~st.found
       THEN same
       ELSE IF st.remote_path # "" /\ ~mountsOk
       THEN [same EXCEPT !.raised = TRUE]
       ELSE IF st.remote_path # "" /\ is_share_mounted(mnts, LOOPBACK_ADDRESS, st.remote_path, ANY_PORT)
       THEN same
       ELSE [raised |-> FALSE,
             dir |-> IF rmConfOk THEN Remove(d, name) ELSE d,
             files |-> k.files, killed |-> k.killed, rmFailed |-> ~rmConfOk]

\* ------------------------------------------------------------------------
\* mount(): the IPsec preparation
\* ------------------------------------------------------------------------

\* What the collaborators answer: is_ppc, root_cert_installed, load_certificate,
\* get_initial_certs, is_certificate_eligible_for_renewal, renew_cert_now,
\* is_certificate_expired, ipsec.is_running, create_config, reload_config.
CertAnswers ==
    [ppc : BOOLEAN, root : BOOLEAN, load : BOOLEAN, init : BOOLEAN, eligible : BOOLEAN,
     renew : BOOLEAN, expired : BOOLEAN, running : BOOLEAN, create : BOOLEAN, reload : BOOLEAN]

\* The call at which the IPsec branch of mount() returns False, or "go" when it
\* reaches the unlock and the mount command.
MutIpsecStageRenewFatal(c) ==
    IF c.ppc THEN "ppc"
    ELSE IF ~c.root THEN "root"
    ELSE IF ~c.load /\ ~c.init THEN "init"
    ELSE IF c.eligible /\ ~c.renew THEN "expired"
    ELSE IF ~c.running THEN "running"
    ELSE IF ~c.create THEN "create"
    ELSE IF ~c.reload THEN "reload"
    ELSE "go"

ipsec_stage(c) ==
    IF c.ppc THEN "ppc"
    ELSE IF ~c.root THEN "root"
    ELSE IF ~c.load /\ ~c.init THEN "init"
    ELSE IF c.eligible /\ ~c.renew /\ c.expired THEN "expired"
    ELSE IF ~c.running THEN "running"
    ELSE IF ~c.create THEN "create"
    ELSE IF ~c.reload THEN "reload"
    ELSE "go"

\* The answers actually asked for (a call mount() never makes is recorded FALSE).
Asked(c) ==
    LET certOk == ~c.ppc /\ c.root /\ (c.load \/ c.init)
        renewOk == certOk /\ ~(c.eligible /\ ~c.renew /\ c.expired)
    IN [ppc |-> c.ppc,
        root |-> ~c.ppc /\ c.root,
        load |-> ~c.ppc /\ c.root /\ c.load,
        init |-> ~c.ppc /\ c.root /\ ~c.load /\ c.init,
        eligible |-> certOk /\ c.eligible,
        renew |-> certOk /\ c.eligible /\ c.renew,
        expired |-> certOk /\ c.eligible /\ ~c.renew /\ c.expired,
        running |-> renewOk /\ c.running,
        create |-> renewOk /\ c.running /\ c.create,
        reload |-> renewOk /\ c.running /\ c.create /\ c.reload]

\* The answers mount() can get: every combination of answers to the calls it
\* makes.
AskedAnswers == {Asked(c) : c \in CertAnswers}

NoAnswers ==
    [ppc |-> FALSE, root |-> FALSE, load |-> FALSE, init |-> FALSE, eligible |-> FALSE,
     renew |-> FALSE, expired |-> FALSE, running |-> FALSE, create |-> FALSE, reload |-> FALSE]

\* ------------------------------------------------------------------------
\* Error codes
\* ------------------------------------------------------------------------

\* The codes handed to LogError. SysApp's numbers are defined outside these
\* sources; a code is kept as its named base and the offset added to it.
NO_CODE == [base |-> "none", plus |-> 0]

ERR_NOT_SUPER_USER == [base |-> "ERR_NOT_SUPER_USER", plus |-> 0]

\* SysApp.ERR_MOUNT + returncode
ERR_MOUNT(returncode) == [base |-> "ERR_MOUNT", plus |-> returncode]

\* The non-zero exit statuses of the mount command.
ReturnCodes == {1, 32}

\* What the mount command does: exit 0, a non-zero exit, a non-zero exit with
\* "timed out" on its error stream, or no result at all from RunCmd.
CmdOutcomes == {"ok", "fail", "timeout", "noout"}

\* out as RunCmd returns it: the outcome and out.returncode.
CmdResults ==
    {[out |-> "ok", rc |-> 0], [out |-> "noout", rc |-> 0]}
    \cup [out : {"fail", "timeout"}, rc : ReturnCodes]

\* The code of the last LogError after the mount command: in
\* run_stunnel_mount_command and in mount() alike, the "timed out" branch logs
\* with ERR_MOUNT + out.returncode, and then exit_code is
\* ERR_MOUNT + out.returncode if out else ERR_MOUNT.
mount_error_code(o, before) ==
    CASE o.out = "ok" -> before
      [] o.out = "noout" -> ERR_MOUNT(0)
      [] o.out = "timeout" -> ERR_MOUNT(o.rc)
      [] OTHER -> ERR_MOUNT(o.rc)

\* ------------------------------------------------------------------------
\* Command lines
\* ------------------------------------------------------------------------

\* rt: the run type (a mount with its arguments, a mount whose arguments
\* get_mount_args rejects, or setup/teardown/renew); mode: -o stunnel, secure=true
\* (IPsec) or neither.
MountArgs ==
    [rt : {"mount"}, mode : {"stunnel", "ipsec", "plain"},
     ip_address : Endpoints, mount_path : Paths]

OtherArgs ==
    [rt : {"mount_noargs", "other"}, mode : {"stunnel", "plain"},
     ip_address : {""}, mount_path : {""}]

is_request_stunnel(a) == a.mode = "stunnel"

is_secure(a) == a.mode = "ipsec"

is_tls(a) == a.mode = "stunnel"

\* hist: notRoot - is_root() was False; alloc - get_free_port was called;
\* created - 0, or the rank of this invocation among those that called
\* start_stunnel; spawned - the pids of the tunnels it started; excIn - where
\* an exception that reached run()'s handler was raised; stage, cert - where
\* mount()'s preparation ended and what the collaborators answered;
\* badUnlock - unlock() was called without the lock; rmFailed - the configs
\* RemoveFile could not remove; rc - the exit status of its mount command;
\* code - the code of its last LogError(..., code=...).
NoHist ==
    [notRoot |-> FALSE, alloc |-> FALSE, created |-> 0, spawned |-> {}, excIn |-> "none",
     stage |-> "none", cert |-> NoAnswers, badUnlock |-> FALSE, rmFailed |-> {},
     rc |-> 0, code |-> NO_CODE]

\* ------------------------------------------------------------------------
\* lock / unlock
\* ------------------------------------------------------------------------

\* grab_blocking_lock: blocks until no invocation holds the lock.
MutLockNoWait(p) ==
    /\ lockHolder' = lockHolder \cup {p}

lock(p) ==
    /\ lockHolder = {}
    /\ lockHolder' = {p}

\* release_lock: releasing a lock this invocation does not hold changes nothing.
unlock(p) ==
    /\ lockHolder' = lockHolder \ {p}

NoteUnlock(p, h) == [h EXCEPT !.badUnlock = @ \/ p \notin lockHolder]

\* ------------------------------------------------------------------------
\* run()
\* ------------------------------------------------------------------------

\* run(): SysApp.is_root() is False.
MutRunNotRootGoesOn(p) ==
    /\ pc[p] = "start"
    /\ pc' = [pc EXCEPT ![p] = IF is_request_stunnel(args[p]) THEN "lock1" ELSE "runtype"]
    /\ hist' = [hist EXCEPT ![p].notRoot = TRUE, ![p].code = ERR_NOT_SUPER_USER]
    /\ UNCHANGED <<lockHolder, args, call, ret, locals, host, cmd>>

RunNotRoot(p) ==
    /\ pc[p] = "start"
    /\ pc' = [pc EXCEPT ![p] = "done"]
    /\ ret' = [ret EXCEPT ![p] = FALSE]
    /\ hist' = [hist EXCEPT ![p].notRoot = TRUE, ![p].code = ERR_NOT_SUPER_USER]
    /\ UNCHANGED <<lockHolder, args, call, locals, host, cmd>>

\* run(): is_root, set_logging_level, is_request_stunnel; without stunnel,
\* set_installed_ipsec (its result is not used).
RunBegin(p) ==
    /\ pc[p] = "start"
    /\ pc' = [pc EXCEPT ![p] = IF is_request_stunnel(args[p]) THEN "lock1" ELSE "runtype"]
    /\ UNCHANGED <<lockHolder, args, call, ret, locals, host, cmd, hist>>

\* run(): self.lock() before set_installed_stunnel.
RunLockInstalled(p) ==
    /\ pc[p] = "lock1"
    /\ lock(p)
    /\ pc' = [pc EXCEPT ![p] = "installed"]
    /\ UNCHANGED <<args, call, ret, locals, host, cmd, hist>>

\* run(): ret = set_installed_stunnel(); unlock(); if not ret: return False.
RunSetInstalledStunnel(p) ==
    /\ pc[p] = "installed"
    /\ \E installed \in BOOLEAN :
        /\ ret' = [ret EXCEPT ![p] = installed]
        /\ pc' = [pc EXCEPT ![p] = IF installed THEN "runtype" ELSE "done"]
    /\ unlock(p)
    /\ hist' = [hist EXCEPT ![p] = NoteUnlock(p, @)]
    /\ UNCHANGED <<args, call, locals, host, cmd>>

\* run(): get_app_run_type. setup / teardown / renew set ret to their result;
\* a mount without arguments leaves ret as it is.
RunType(p) ==
    /\ pc[p] = "runtype"
    /\ \/ /\ args[p].rt = "other"
          /\ \E result \in BOOLEAN : ret' = [ret EXCEPT ![p] = result]
          /\ pc' = [pc EXCEPT ![p] = "done"]
       \/ /\ args[p].rt = "mount_noargs"
          /\ ret' = ret
          /\ pc' = [pc EXCEPT ![p] = "done"]
       \/ /\ args[p].rt = "mount"
          /\ ret' = ret
          /\ pc' = [pc EXCEPT ![p] = "lock2"]
    /\ UNCHANGED <<lockHolder, args, call, locals, host, cmd, hist>>

\* run(): self.lock() of the mount sequence.
RunLockMount(p) ==
    /\ pc[p] = "lock2"
    /\ lock(p)
    /\ pc' = [pc EXCEPT ![p] = IF is_request_stunnel(args[p]) THEN "scandir" ELSE "mount"]
    /\ UNCHANGED <<args, call, ret, locals, host, cmd, hist>>

\* run(): the self.unlock() that ends the mount sequence, and return ret.
MutRunUnlockSkipped(p) ==
    /\ pc[p] = "unlock"
    /\ pc' = [pc EXCEPT ![p] = "done"]
    /\ UNCHANGED <<lockHolder, args, call, ret, locals, host, cmd, hist>>

RunUnlock(p) ==
    /\ pc[p] = "unlock"
    /\ unlock(p)
    /\ hist' = [hist EXCEPT ![p] = NoteUnlock(p, @)]
    /\ pc' = [pc EXCEPT ![p] = "done"]
    /\ UNCHANGED <<args, call, ret, locals, host, cmd>>

\* run(): except Exception: LogException, unlock, return ret.
MutRunHandlerNoUnlock(p) ==
    /\ pc[p] = "handler"
    /\ pc' = [pc EXCEPT ![p] = "done"]
    /\ UNCHANGED <<lockHolder, args, call, ret, locals, host, cmd, hist>>

RunHandler(p) ==
    /\ pc[p] = "handler"
    /\ unlock(p)
    /\ hist' = [hist EXCEPT ![p] = NoteUnlock(p, @)]
    /\ pc' = [pc EXCEPT ![p] = "done"]
    /\ UNCHANGED <<args, call, ret, locals, host, cmd>>

\* ------------------------------------------------------------------------
\* cleanup_stale_conf
\* ------------------------------------------------------------------------

\* os.scandir(dirname): raises when the directory cannot be read, else yields
\* the entries of the directory.
CleanupScandir(p) ==
    /\ pc[p] = "scandir"
    /\ \/ /\ pc' = [pc EXCEPT ![p] = "sweep"]
          /\ todo' = [todo EXCEPT ![p] = DOMAIN dir]
          /\ hist' = hist
       \/ /\ pc' = [pc EXCEPT ![p] = "handler"]
          /\ todo' = todo
          /\ hist' = [hist EXCEPT ![p].excIn = "scandir"]
    /\ UNCHANGED <<lockHolder, args, call, ret, port, mount_port, config_file_found, host, cmd>>

\* One iteration of the loop over the entries.
CleanupEntry(p) ==
    /\ pc[p] = "sweep"
    /\ \E name \in todo[p], mountsOk \in BOOLEAN, rmPidOk \in BOOLEAN, rmConfOk \in BOOLEAN :
        \E r \in {cleanup_entry(name, dir, pidFiles, mounts, tunnels, mountsOk, rmPidOk, rmConfOk)} :
           /\ dir' = r.dir
           /\ pidFiles' = r.files
           /\ signaled' = signaled \cup r.killed
           /\ tunnels' = {t \in tunnels : t.pid \notin r.killed}
           /\ todo' = [todo EXCEPT ![p] = @ \ {name}]
           /\ pc' = [pc EXCEPT ![p] = IF r.raised THEN "handler" ELSE "sweep"]
           /\ hist' = [hist EXCEPT ![p].excIn = IF r.raised THEN "mounts" ELSE @,
                                   ![p].rmFailed = IF r.rmFailed THEN @ \cup {name} ELSE @]
    /\ UNCHANGED <<lockHolder, args, call, ret, port, mount_port, config_file_found,
                   mounts, nextPid, cmd>>

\* The loop ends; run() goes on to process_stunnel_mount.
CleanupDone(p) ==
    /\ pc[p] = "sweep"
    /\ todo[p] = {}
    /\ pc' = [pc EXCEPT ![p] = "psm"]
    /\ UNCHANGED <<lockHolder, args, call, ret, locals, host, cmd, hist>>

\* ------------------------------------------------------------------------
\* process_stunnel_mount, run_stunnel_mount_command
\* ------------------------------------------------------------------------

\* get_free_port: a loopback port no running tunnel listens on, or NO_PORT.
FreePorts(tun) == Ports \ {t.port : t \in tun}

\* config_file_found = st.is_found() and st.connect_ip == ip_address
MutFoundNever(st, ip_address) == FALSE

ConfigFileFound(st, ip_address) == st.found /\ st.connect_ip = ip_address

\* The cleanup_config argument process_stunnel_mount passes to
\* run_stunnel_mount_command.
MutCleanupConfigTrue == TRUE

CLEANUP_CONFIG == FALSE

\* process_stunnel_mount up to the call of run_stunnel_mount_command: umask,
\* port, PID directory, config lookup, start_stunnel.
ProcessStunnelMount(p) ==
    /\ pc[p] = "psm"
    /\ \E umaskOk \in BOOLEAN, pidDirOk \in BOOLEAN, wr \in WriteOutcomes,
          fp \in FreePorts(tunnels) \cup {NO_PORT}, spawn \in {"ok", "nonzero", "raise"} :
        LET ip_address == args[p].ip_address
            mount_path == args[p].mount_path
            st == open_with_remote_path(dir, mount_path)
            found == ConfigFileFound(st, ip_address)
            s == start_stunnel(fp, ip_address, mount_path, dir, pidFiles, tunnels,
                               nextPid, wr, spawn)
        IN IF ~umaskOk
           THEN /\ ret' = [ret EXCEPT ![p] = FALSE]
                /\ pc' = [pc EXCEPT ![p] = "unlock"]
                /\ UNCHANGED <<locals, host, cmd, hist>>
           ELSE IF fp = NO_PORT \/ ~pidDirOk
           THEN /\ ret' = [ret EXCEPT ![p] = FALSE]
                /\ pc' = [pc EXCEPT ![p] = "unlock"]
                /\ port' = [port EXCEPT ![p] = fp]
                /\ hist' = [hist EXCEPT ![p].alloc = TRUE]
                /\ UNCHANGED <<mount_port, config_file_found, todo, host, cmd>>
           ELSE IF found
           THEN /\ port' = [port EXCEPT ![p] = fp]
                /\ mount_port' = [mount_port EXCEPT ![p] = st.accept_port]
                /\ config_file_found' = [config_file_found EXCEPT ![p] = TRUE]
                /\ hist' = [hist EXCEPT ![p].alloc = TRUE]
                /\ cmd' = [cmd EXCEPT ![p] = "running"]
                /\ pc' = [pc EXCEPT ![p] = "mountcmd"]
                /\ UNCHANGED <<ret, todo, host>>
           ELSE /\ port' = [port EXCEPT ![p] = fp]
                /\ mount_port' = [mount_port EXCEPT ![p] = fp]
                /\ config_file_found' = [config_file_found EXCEPT ![p] = FALSE]
                /\ dir' = s.dir
                /\ pidFiles' = s.files
                /\ tunnels' = s.tunnels
                /\ nextPid' = IF s.spawned = {} THEN nextPid ELSE nextPid + 1
                /\ hist' = [hist EXCEPT ![p].alloc = TRUE,
                                        ![p].created = 1 + Cardinality({q \in Procs : hist[q].created > 0}),
                                        ![p].spawned = s.spawned,
                                        ![p].excIn = IF s.status = "raise" THEN "start_stunnel" ELSE @]
                /\ ret' = [ret EXCEPT ![p] = IF s.status = "fail" THEN FALSE ELSE @]
                /\ cmd' = [cmd EXCEPT ![p] = IF s.status = "ok" THEN "running" ELSE @]
                /\ pc' = [pc EXCEPT ![p] =
                            CASE s.status = "ok" -> "mountcmd"
                              [] s.status = "fail" -> "unlock"
                              [] OTHER -> "handler"]
                /\ UNCHANGED <<todo, mounts, signaled>>
    /\ UNCHANGED <<lockHolder, args, call>>

\* run_stunnel_mount_command from the return of RunCmd on, and the return
\* through process_stunnel_mount to run().
StunnelMountCmdEnd(p) ==
    /\ pc[p] = "mountcmd"
    /\ \E o \in CmdResults, rmPidOk \in BOOLEAN, rmConfOk \in BOOLEAN :
        LET out == o.out
            mount_path == args[p].mount_path
            st == open_with_remote_path(dir, mount_path)
            k == kill_stunnel_pid(st, pidFiles, tunnels, rmPidOk)
            teardown == out # "ok" /\ st.found /\ CLEANUP_CONFIG
        IN /\ cmd' = [cmd EXCEPT ![p] = out]
           /\ ret' = [ret EXCEPT ![p] = (out = "ok")]
           /\ mounts' = IF out = "ok"
                        THEN mounts \cup {[ip |-> LOOPBACK_ADDRESS, mount_path |-> mount_path,
                                           mount_port |-> mount_port[p]]}
                        ELSE mounts
           /\ pidFiles' = IF teardown THEN k.files ELSE pidFiles
           /\ signaled' = IF teardown THEN signaled \cup k.killed ELSE signaled
           /\ tunnels' = IF teardown THEN {t \in tunnels : t.pid \notin k.killed} ELSE tunnels
           /\ dir' = IF teardown /\ rmConfOk THEN Remove(dir, st.config_file) ELSE dir
           /\ pc' = [pc EXCEPT ![p] = IF teardown /\ ~rmConfOk THEN "handler" ELSE "unlock"]
           /\ hist' = [hist EXCEPT ![p].excIn = IF teardown /\ ~rmConfOk THEN "remove" ELSE @,
                                   ![p].rc = o.rc,
                                   ![p].code = IF teardown /\ ~rmConfOk
                                               THEN @ ELSE mount_error_code(o, @)]
    /\ UNCHANGED <<lockHolder, args, call, locals, nextPid>>

\* ------------------------------------------------------------------------
\* mount()
\* ------------------------------------------------------------------------

\* mount() up to its self.unlock(): the share is already mounted, or a
\* non-IPsec mount is requested, or the IPsec preparation. A collaborator may
\* raise (raises), which run() catches.
MountPrepare(p) ==
    /\ pc[p] = "mount"
    /\ IF is_share_mounted(mounts, args[p].ip_address, args[p].mount_path, ANY_PORT)
       THEN /\ pc' = [pc EXCEPT ![p] = "munlock"]
            /\ hist' = [hist EXCEPT ![p].stage = "mounted"]
            /\ ret' = ret
       ELSE IF ~is_secure(args[p]) \/ is_tls(args[p])
       THEN /\ pc' = [pc EXCEPT ![p] = "munlock"]
            /\ hist' = [hist EXCEPT ![p].stage = "nonipsec"]
            /\ ret' = ret
       ELSE \/ /\ pc' = [pc EXCEPT ![p] = "handler"]
               /\ hist' = [hist EXCEPT ![p].stage = "raise", ![p].excIn = "ipsec"]
               /\ ret' = ret
            \/ \E c \in AskedAnswers :
               /\ pc' = [pc EXCEPT ![p] = IF ipsec_stage(c) = "go" THEN "munlock" ELSE "unlock"]
               /\ hist' = [hist EXCEPT ![p].stage = ipsec_stage(c), ![p].cert = c]
               /\ ret' = [ret EXCEPT ![p] = IF ipsec_stage(c) = "go" THEN @ ELSE FALSE]
    /\ UNCHANGED <<lockHolder, args, call, locals, host, cmd>>

\* mount(): self.unlock(), then RunCmd starts the mount command.
MountUnlockRun(p) ==
    /\ pc[p] = "munlock"
    /\ unlock(p)
    /\ hist' = [hist EXCEPT ![p] = NoteUnlock(p, @)]
    /\ cmd' = [cmd EXCEPT ![p] = "running"]
    /\ pc' = [pc EXCEPT ![p] = "mcmd"]
    /\ UNCHANGED <<args, call, ret, locals, host>>

\* mount() from the return of RunCmd on, and the return to run().
MountCmdEnd(p) ==
    /\ pc[p] = "mcmd"
    /\ \E o \in CmdResults :
        /\ cmd' = [cmd EXCEPT ![p] = o.out]
        /\ ret' = [ret EXCEPT ![p] = (o.out = "ok")]
        /\ mounts' = IF o.out = "ok"
                     THEN mounts \cup {[ip |-> args[p].ip_address,
                                        mount_path |-> args[p].mount_path,
                                        mount_port |-> MOUNT_PORT]}
                     ELSE mounts
        /\ hist' = [hist EXCEPT ![p].rc = o.rc, ![p].code = mount_error_code(o, @)]
    /\ pc' = [pc EXCEPT ![p] = "unlock"]
    /\ UNCHANGED <<lockHolder, args, call, locals, dir, pidFiles, tunnels, signaled, nextPid>>

\* ------------------------------------------------------------------------
\* Specification: concurrent invocations on a host with no tunnel and no mount
\* ------------------------------------------------------------------------
EmptyFn == [x \in {} |-> x]

InitProcs ==
    /\ lockHolder = {}
    /\ ret = [p \in Procs |-> FALSE]
    /\ port = [p \in Procs |-> 0]
    /\ mount_port = [p \in Procs |-> 0]
    /\ config_file_found = [p \in Procs |-> FALSE]
    /\ todo = [p \in Procs |-> {}]
    /\ cmd = [p \in Procs |-> "none"]
    /\ hist = [p \in Procs |-> NoHist]
    /\ signaled = {}

Init ==
    /\ InitProcs
    /\ call = NoCall
    /\ pc = [p \in Procs |-> "start"]
    /\ args \in [Procs -> MountArgs \cup OtherArgs]
    /\ dir = EmptyFn
    /\ pidFiles = EmptyFn
    /\ mounts = {}
    /\ tunnels = {}
    /\ nextPid = 1

Next ==
    \E p \in Procs :
        \/ RunNotRoot(p)
        \/ RunBegin(p)
        \/ RunLockInstalled(p)
        \/ RunSetInstalledStunnel(p)
        \/ RunType(p)
        \/ RunLockMount(p)
        \/ CleanupScandir(p)
        \/ CleanupEntry(p)
        \/ CleanupDone(p)
        \/ ProcessStunnelMount(p)
        \/ StunnelMountCmdEnd(p)
        \/ MountPrepare(p)
        \/ MountUnlockRun(p)
        \/ MountCmdEnd(p)
        \/ RunUnlock(p)
        \/ RunHandler(p)

Spec == Init /\ [][Next]_vars

\* ------------------------------------------------------------------------
\* Specification: the same invocations, each of which keeps running
\* ------------------------------------------------------------------------

\* The steps of one invocation.
ProcStep(p) ==
    \/ RunNotRoot(p)
    \/ RunBegin(p)
    \/ RunLockInstalled(p)
    \/ RunSetInstalledStunnel(p)
    \/ RunType(p)
    \/ RunLockMount(p)
    \/ CleanupScandir(p)
    \/ CleanupEntry(p)
    \/ CleanupDone(p)
    \/ ProcessStunnelMount(p)
    \/ StunnelMountCmdEnd(p)
    \/ MountPrepare(p)
    \/ MountUnlockRun(p)
    \/ MountCmdEnd(p)
    \/ RunUnlock(p)
    \/ RunHandler(p)

\* Each invocation is a single-threaded, synchronous OS process: it takes its
\* next step whenever it can (a step that stays possible is eventually taken).
\* Every external command (stunnel, mount) returns, and grab_blocking_lock
\* returns once the lock stays free. Nothing is assumed about which of several
\* waiting invocations gets the lock.
Fairness == \A p \in Procs : WF_vars(ProcStep(p))

\* The command lines of the invocations: mounts of one remote path at one
\* endpoint, through a tunnel or with IPsec, which all compete for the lock.
LiveArgs ==
    [rt : {"mount"}, mode : {"stunnel", "ipsec"},
     ip_address : {"10.0.0.1"}, mount_path : {"/vol1"}]

InitLive ==
    /\ InitProcs
    /\ call = NoCall
    /\ pc = [p \in Procs |-> "start"]
    /\ args \in [Procs -> LiveArgs]
    /\ dir = EmptyFn
    /\ pidFiles = EmptyFn
    /\ mounts = {}
    /\ tunnels = {}
    /\ nextPid = 1

SpecLive == InitLive /\ [][Next]_vars /\ Fairness

\* ------------------------------------------------------------------------
\* Specification: one tunnel-mode invocation on a host that earlier runs (and
\* other programs) have left configs, PID files, tunnels and mounts on
\* ------------------------------------------------------------------------

\* PID file texts: empty, zero, negative, not a number, a pid, a pid with
\* white space around it, a pid followed by a second line.
PidTexts ==
    {<<>>, <<"0", "\n">>, <<"-", "7", "\n">>, <<"a", "b", "\n">>, <<"7", "\n">>,
     <<" ", "7", " ", "\n">>, <<"7", "\n", "-", "1", "\n">>}

\* A product config as write_file leaves it.
ConfEntry(remote_path, connect_ip, accept_port, pid_file) ==
    [is_file |-> TRUE, parses |-> TRUE, remote_path |-> remote_path,
     connect_ip |-> connect_ip, accept_port |-> accept_port, pid_file |-> pid_file]

\* Entries that are not product configs: without the extension, without the
\* signature, a directory, a file that does not parse.
ForeignEntries ==
    ([id |-> "notes", ext |-> FALSE, sig |-> TRUE] :> ConfEntry("/vol1", "10.0.0.1", 1, "/vol1"))
    @@ ([id |-> "other", ext |-> TRUE, sig |-> FALSE] :> ConfEntry("/vol1", "10.0.0.1", 1, "/vol1"))
    @@ ([id |-> "subdir", ext |-> TRUE, sig |-> TRUE] :>
          [ConfEntry("/vol1", "10.0.0.1", 1, "/vol1") EXCEPT !.is_file = FALSE])
    @@ ([id |-> "garbled", ext |-> TRUE, sig |-> TRUE] :>
          [ConfEntry("/vol1", "10.0.0.1", 1, "/vol1") EXCEPT !.parses = FALSE])

\* What may be on the host for /vol1: no config, or a config (for endpoint
\* 10.0.0.1, accept port 1) that names a PID file or none; the PID file is absent
\* or holds one of PidTexts; the tunnel with pid 7 runs or not.
Vol1Hosts ==
    {[conf |-> "none", text |-> {}, alive |-> FALSE]}
    \cup [conf : {"nopid"}, text : {{}}, alive : BOOLEAN]
    \cup [conf : {"pid"}, text : {{}} \cup {{t} : t \in PidTexts}, alive : BOOLEAN]

\* The config directory, the PID files and the running tunnels of such a host.
\* /vol2 has the config, PID file and running tunnel (pid 8, port 2) of an
\* earlier mount.
HostDir(h) ==
    (IF h.conf = "none" THEN EmptyFn
     ELSE get_config_file_from_remote_path("/vol1") :>
            ConfEntry("/vol1", "10.0.0.1", 1,
                      IF h.conf = "pid" THEN PidFileName("/vol1") ELSE ""))
    @@ (get_config_file_from_remote_path("/vol2") :>
            ConfEntry("/vol2", "10.0.0.2", 2, PidFileName("/vol2")))
    @@ ForeignEntries

HostPidFiles(h) ==
    [f \in {PidFileName("/vol1") : t \in h.text} |-> CHOOSE t \in h.text : TRUE]
    @@ (PidFileName("/vol2") :> PidFileText(8))

HostTunnels(h) ==
    {[pid |-> 8, path |-> "/vol2", ep |-> "10.0.0.2", port |-> 2]}
    \cup (IF h.alive
          THEN {[pid |-> 7, path |-> "/vol1", ep |-> "10.0.0.1", port |-> 1]}
          ELSE {})

\* Invocation 1 mounts through a tunnel to endpoint 10.0.0.1; invocation 2 has
\* ended. The mount of /vol2 may be gone from the mount table.
InitSweep ==
    /\ InitProcs
    /\ call = NoCall
    /\ pc = [p \in Procs |-> IF p = 1 THEN "start" ELSE "done"]
    /\ \E path \in Paths :
        args = [p \in Procs |-> IF p = 1
                                THEN [rt |-> "mount", mode |-> "stunnel",
                                      ip_address |-> "10.0.0.1", mount_path |-> path]
                                ELSE [rt |-> "other", mode |-> "plain",
                                      ip_address |-> "", mount_path |-> ""]]
    /\ \E h \in Vol1Hosts :
        /\ dir = HostDir(h)
        /\ pidFiles = HostPidFiles(h)
        /\ tunnels = HostTunnels(h)
    /\ \E m1 \in {{}, {LOOPBACK_ADDRESS}, {"10.0.0.1"}}, m2 \in BOOLEAN :
        mounts = {[ip |-> i, mount_path |-> "/vol1", mount_port |-> 1] : i \in m1}
                 \cup (IF m2
                       THEN {[ip |-> LOOPBACK_ADDRESS, mount_path |-> "/vol2", mount_port |-> 2]}
                       ELSE {})
    /\ nextPid = 9

NextSweep ==
    \E p \in Procs :
        \/ RunNotRoot(p)
        \/ RunBegin(p)
        \/ RunLockInstalled(p)
        \/ RunSetInstalledStunnel(p)
        \/ RunType(p)
        \/ RunLockMount(p)
        \/ CleanupScandir(p)
        \/ CleanupEntry(p)
        \/ CleanupDone(p)
        \/ ProcessStunnelMount(p)
        \/ StunnelMountCmdEnd(p)
        \/ RunUnlock(p)
        \/ RunHandler(p)

SpecSweep == InitSweep /\ [][NextSweep]_vars

\* ------------------------------------------------------------------------
\* Specification: one call of StunnelConfigCreate.write_file, or of
\* kill_stunnel_pid, on such a host
\* ------------------------------------------------------------------------

\* StunnelConfigCreate(accept_ip, accept_port, connect_ip, connect_port,
\* remote_path).write_file(), each field given or empty.
WriteFileCalls ==
    [fn : {"write_file"}, done : {FALSE},
     in : [accept_ip : {"", LOOPBACK_ADDRESS}, accept_port : {0} \cup Ports,
           connect_ip : {"", "10.0.0.2"}, connect_port : {0, MOUNT_PORT},
           remote_path : {""} \cup Paths],
     out : {<<>>}]

\* kill_stunnel_pid(st), st parsed from the config of /vol1 (if there is one),
\* from the config of /vol2, or from a file that does not parse.
KillCalls ==
    [fn : {"kill_stunnel_pid"}, done : {FALSE},
     in : [name : {get_config_file_from_remote_path("/vol1"),
                   get_config_file_from_remote_path("/vol2"),
                   [id |-> "garbled", ext |-> TRUE, sig |-> TRUE]}],
     out : {<<>>}]

InitCalls ==
    /\ InitProcs
    /\ pc = [p \in Procs |-> "done"]
    /\ args = [p \in Procs |-> [rt |-> "other", mode |-> "plain",
                                ip_address |-> "", mount_path |-> ""]]
    /\ \E h \in Vol1Hosts :
        /\ dir = HostDir(h)
        /\ pidFiles = HostPidFiles(h)
        /\ tunnels = HostTunnels(h)
    /\ mounts = {}
    /\ nextPid = 9
    /\ call \in WriteFileCalls \cup KillCalls

\* st.write_file(); st.is_valid()
WriteFileCall ==
    /\ call.fn = "write_file" /\ ~call.done
    /\ \E wr \in WriteOutcomes :
        LET w == write_file(call.in.accept_ip, call.in.accept_port, call.in.connect_ip,
                            call.in.connect_port, call.in.remote_path, dir, wr)
        IN /\ dir' = w.dir
           /\ call' = [call EXCEPT !.done = TRUE, !.out = [valid |-> w.valid]]
    /\ UNCHANGED <<lockHolder, pc, args, ret, locals, pidFiles, mounts, tunnels,
                   signaled, nextPid, cmd, hist>>

\* self.kill_stunnel_pid(st). out.rmPidOk: os.remove(pid_file) did not raise.
KillStunnelPidCall ==
    /\ call.fn = "kill_stunnel_pid" /\ ~call.done
    /\ \E rmPidOk \in BOOLEAN :
        LET st == parse_with_full_path(dir, call.in.name)
            k == kill_stunnel_pid(st, pidFiles, tunnels, rmPidOk)
        IN /\ pidFiles' = k.files
           /\ signaled' = signaled \cup k.killed
           /\ tunnels' = {t \in tunnels : t.pid \notin k.killed}
           /\ call' = [call EXCEPT !.done = TRUE,
                                   !.out = [result |-> k.result, rmPidOk |-> rmPidOk]]
    /\ UNCHANGED <<lockHolder, pc, args, ret, locals, dir, mounts, nextPid, cmd, hist>>

NextCalls ==
    \/ WriteFileCall
    \/ KillStunnelPidCall

SpecCalls == InitCalls /\ [][NextCalls]_vars

\* ------------------------------------------------------------------------
\* Properties
\* ------------------------------------------------------------------------

TunnelMount(p) == args[p].rt = "mount" /\ args[p].mode = "stunnel"

\* C1: while an invocation's mount command runs, that invocation does not hold
\* the system-wide lock (tunnel mode and IPsec/plain mode alike).
C1_LockFreeWhileMountCommandRuns ==
    \A p \in Procs : cmd[p] = "running" => p \notin lockHolder

\* C2: when run() has returned, the invocation does not hold the system-wide
\* lock, whatever path (normal, early failure, exception) it returned by.
C2_NoLockAfterReturn ==
    \A p \in Procs : pc[p] = "done" => p \notin lockHolder

\* C2 witness: run() has returned after an exception raised under the lock, in
\* cleanup_stale_conf, while the other invocation waits for the lock.
C2_Witness ==
    \E p, q \in Procs :
        /\ pc[p] = "done" /\ hist[p].excIn = "scandir"
        /\ pc[q] = "lock2"

\* C3 (as stated): of two tunnel-mode mounts of the same remote path, at most
\* one calls start_stunnel.
C3_AtMostOneCreates ==
    \A p, q \in Procs :
        (p # q /\ TunnelMount(p) /\ TunnelMount(q)
         /\ args[p].mount_path = args[q].mount_path)
        => ~(hist[p].created > 0 /\ hist[q].created > 0)

\* C3 (amended): of two tunnel-mode mounts of the same remote path and the
\* same remote endpoint, when the first to decide created a tunnel and its
\* mount command succeeded, the other does not call start_stunnel.
C3_SecondReusesAfterSuccess ==
    \A p, q \in Procs :
        (p # q /\ TunnelMount(p) /\ TunnelMount(q)
         /\ args[p].mount_path = args[q].mount_path
         /\ args[p].ip_address = args[q].ip_address
         /\ hist[p].created > 0 /\ cmd[p] = "ok")
        => (hist[q].created = 0 \/ hist[q].created < hist[p].created)

\* C3 witness: the first created a tunnel and mounted, the second found the
\* config and issued its mount through the same tunnel.
C3_Witness ==
    \E p, q \in Procs :
        /\ p # q /\ TunnelMount(p) /\ TunnelMount(q)
        /\ args[p].mount_path = args[q].mount_path
        /\ args[p].ip_address = args[q].ip_address
        /\ hist[p].created > 0 /\ cmd[p] = "ok"
        /\ hist[q].created = 0 /\ config_file_found[q] /\ cmd[q] = "ok"
        /\ mount_port[q] = mount_port[p]

\* C4: when process_stunnel_mount has started a tunnel and the mount command
\* failed, on return the tunnel's process has been signaled and the config
\* file of the path is gone.
C4_CreatedTunnelTornDownOnFailure ==
    \A p \in Procs :
        (pc[p] = "unlock" /\ hist[p].spawned # {} /\ cmd[p] \in {"fail", "timeout", "noout"})
        => /\ hist[p].spawned \subseteq signaled
           /\ get_config_file_from_remote_path(args[p].mount_path) \notin DOMAIN dir

\* cleanup_stale_conf examines the entry `name` in this step.
Examines(p, name) ==
    /\ pc[p] = "sweep"
    /\ name \in todo[p]
    /\ todo'[p] = todo[p] \ {name}

\* The entry is a product config: a regular file with the extension and the
\* signature that parses.
ProductConfig(name) ==
    /\ name \in DOMAIN dir
    /\ dir[name].is_file /\ name.ext /\ name.sig /\ dir[name].parses

MountedThroughLoopback(name) ==
    \E m \in mounts : m.ip = LOOPBACK_ADDRESS /\ m.mount_path = dir[name].remote_path

\* C5 (as stated): a config cleanup_stale_conf examines is left alone (file
\* kept, no process signaled) when its path is mounted through the loopback
\* address on any port, and is deleted when the path is reported not mounted,
\* also when pid_from_file returns None.
C5_SweepKeepsMountedDeletesOrphans ==
    [][\A p \in Procs : \A name \in DOMAIN dir :
         (Examines(p, name) /\ ProductConfig(name))
         => /\ MountedThroughLoopback(name)
               => /\ name \in DOMAIN dir' /\ dir'[name] = dir[name]
                  /\ signaled' = signaled /\ tunnels' = tunnels /\ pidFiles' = pidFiles
            /\ (~MountedThroughLoopback(name) /\ pc'[p] # "handler")
               => name \notin DOMAIN dir']_vars

\* C5 (amended): as C5, but a config whose path is not mounted is deleted
\* unless removing the file fails; the failed removal is recorded (logged) and
\* the file stays.
C5_SweepKeepsMountedRemovesOrphans ==
    [][\A p \in Procs : \A name \in DOMAIN dir :
         (Examines(p, name) /\ ProductConfig(name))
         => /\ MountedThroughLoopback(name)
               => /\ name \in DOMAIN dir' /\ dir'[name] = dir[name]
                  /\ signaled' = signaled /\ tunnels' = tunnels /\ pidFiles' = pidFiles
            /\ (~MountedThroughLoopback(name) /\ pc'[p] # "handler")
               => \/ name \notin DOMAIN dir'
                  \/ name \in hist'[p].rmFailed /\ dir'[name] = dir[name]]_vars

\* C5 witness: the sweep has deleted the config of /vol1, whose PID file holds
\* no pid (no process was signaled for it; the PID file itself could not be
\* removed and is still there), and has kept the config of the mounted /vol2.
C5_Witness ==
    \E p \in Procs :
        /\ pc[p] = "sweep" /\ todo[p] = {}
        /\ get_config_file_from_remote_path("/vol1") \notin DOMAIN dir
        /\ PidFileName("/vol1") \in DOMAIN pidFiles
        /\ pid_from_file(pidFiles, PidFileName("/vol1")) = {}
        /\ signaled = {}
        /\ get_config_file_from_remote_path("/vol2") \in DOMAIN dir
        /\ \E m \in mounts : m.ip = LOOPBACK_ADDRESS /\ m.mount_path = "/vol2"

\* C6: when process_stunnel_mount issues the mount command, either it found a
\* config of the path for the requested endpoint, and then it mounts against the
\* recorded accept port, has allocated no port and has started no tunnel; or
\* it has allocated a port, started a tunnel and mounts against that port.
C6_ReuseWithoutAllocationElseCreate ==
    \A p \in Procs :
        pc[p] = "mountcmd"
        => LET st == open_with_remote_path(dir, args[p].mount_path)
           IN IF config_file_found[p]
              THEN /\ mount_port[p] = st.accept_port
                   /\ ~hist[p].alloc
                   /\ hist[p].spawned = {}
              ELSE /\ hist[p].alloc
                   /\ hist[p].spawned # {}
                   /\ mount_port[p] = port[p]

\* C7: run() returns a success status for a mount request only if the mount
\* command was issued and exited successfully.
C7_SuccessOnlyAfterSuccessfulMount ==
    \A p \in Procs :
        (pc[p] = "done" /\ args[p].rt \in {"mount", "mount_noargs"} /\ ret[p])
        => cmd[p] = "ok"

\* C8: no exception leaves cleanup_stale_conf, and when the sweep is over every
\* entry of the directory has been examined.
C8_NoExceptionLeavesSweep ==
    \A p \in Procs :
        /\ hist[p].excIn \notin {"scandir", "mounts"}
        /\ (pc[p] \notin {"scandir", "sweep"} => todo[p] = {})

\* C9: os.kill is called only with a strictly positive pid, and that pid is
\* what the first line of a PID file parses to.
C9_OnlyPositiveParsedPidsSignaled ==
    [][\A n \in signaled' \ signaled :
         /\ n > 0
         /\ \E f \in DOMAIN pidFiles :
              LET r == ParseInt(Strip(ReadLine(pidFiles[f])))
              IN r.ok /\ r.val = n]_vars

\* C9 witness: kill_stunnel_pid has run on the config of /vol1, whose PID file
\* holds a negative number, and has signaled nothing (the config is deleted, the
\* PID file could not be removed).
C9_Witness ==
    /\ get_config_file_from_remote_path("/vol1") \notin DOMAIN dir
    /\ PidFileName("/vol1") \in DOMAIN pidFiles
    /\ pidFiles[PidFileName("/vol1")] = <<"-", "7", "\n">>
    /\ signaled = {}

\* mount() took its IPsec branch (secure requested, not TLS, share not mounted).
IpsecPath(p) ==
    /\ args[p].mode = "ipsec"
    /\ hist[p].stage \notin {"none", "mounted", "nonipsec", "raise"}

\* C10: in the IPsec branch of mount() the mount command is not issued when the
\* root certificate is not installed, nor when loading the certificate and
\* fetching the initial certificate both fail; after a failed renewal the mount
\* is abandoned at that point exactly when the certificate is expired.
C10_IpsecCertificateGate ==
    \A p \in Procs :
        IpsecPath(p)
        => LET c == hist[p].cert
           IN /\ cmd[p] # "none" => (c.root /\ (c.load \/ c.init))
              /\ (c.eligible /\ ~c.renew /\ c.expired) => cmd[p] = "none"
              /\ (c.eligible /\ ~c.renew)
                 => (hist[p].stage = "expired" <=> c.expired)

\* C10 witness: renewal failed, the certificate is not expired, and the mount
\* command was issued and succeeded.
C10_Witness ==
    \E p \in Procs :
        /\ IpsecPath(p)
        /\ hist[p].cert.eligible /\ ~hist[p].cert.renew /\ ~hist[p].cert.expired
        /\ cmd[p] = "ok" /\ ret[p]

\* C11: a mount command that fails with "timed out" on its error stream leaves
\* an error code different from the one a mount command leaves that fails with
\* the same exit status and no "timed out" (run_stunnel_mount_command and
\* mount() alike).
C11_TimeoutCodeDiffers ==
    \A p, q \in Procs :
        (cmd[p] = "timeout" /\ cmd[q] = "fail" /\ hist[p].rc = hist[q].rc)
        => hist[p].code # hist[q].code

MountFailed(c) == c \in {"fail", "timeout", "noout"}

\* C12: when the mount command fails on the reuse path (a matching config was
\* found, this attempt started no tunnel), run_stunnel_mount_command leaves the
\* existing tunnel alone: no process is signaled, and no config file and no PID
\* file is removed or rewritten.
C12_ReuseFailureLeavesTunnel ==
    [][\A p \in Procs :
         (pc[p] = "mountcmd" /\ config_file_found[p] /\ MountFailed(cmd'[p]))
         => /\ dir' = dir
            /\ pidFiles' = pidFiles
            /\ tunnels' = tunnels
            /\ signaled' = signaled]_vars

\* C12 witness: the mount through the tunnel an earlier mount left for the path
\* failed; the tunnel's process runs, and its config and PID file are in place.
C12_Witness ==
    \E p \in Procs :
        /\ pc[p] = "unlock" /\ config_file_found[p] /\ hist[p].created = 0
        /\ MountFailed(cmd[p])
        /\ LET st == open_with_remote_path(dir, args[p].mount_path)
           IN /\ st.found /\ st.connect_ip = args[p].ip_address
              /\ pid_from_file(pidFiles, st.pid_file) # {}
              /\ pid_from_file(pidFiles, st.pid_file) \subseteq AlivePids(tunnels)
              /\ pid_from_file(pidFiles, st.pid_file) \cap signaled = {}

\* C13: an invocation whose caller is not superuser has returned at once with a
\* failure status and the not-superuser code, and it never holds the lock,
\* sweeps, allocates a port, writes a config, starts a tunnel or issues a mount
\* command; the step in which it fails changes nothing on the host.
C13_NotRootDoesNothing ==
    /\ [](\A p \in Procs :
            hist[p].notRoot
            => /\ pc[p] = "done" /\ ~ret[p]
               /\ hist[p].code = ERR_NOT_SUPER_USER
               /\ p \notin lockHolder /\ ~hist[p].badUnlock
               /\ todo[p] = {}
               /\ ~hist[p].alloc /\ port[p] = 0
               /\ hist[p].created = 0 /\ hist[p].spawned = {}
               /\ cmd[p] = "none")
    /\ [][\A p \in Procs :
            (~hist[p].notRoot /\ hist'[p].notRoot)
            => UNCHANGED <<lockHolder, locals, host, cmd>>]_vars

\* C13 witness: a tunnel-mode mount requested by a caller who is not superuser
\* has returned, while the other invocation is inside its mount sequence.
C13_Witness ==
    \E p, q \in Procs :
        /\ hist[p].notRoot /\ pc[p] = "done" /\ TunnelMount(p)
        /\ TunnelMount(q) /\ pc[q] = "mountcmd" /\ args[q].mount_path = args[p].mount_path

\* One of the five fields of the write_file call is empty.
FieldMissing(in) ==
    \/ in.accept_ip = "" \/ in.accept_port = 0 \/ in.connect_ip = ""
    \/ in.connect_port = 0 \/ in.remote_path = ""

\* C14: write_file called with accept ip, accept port, connect ip, connect port
\* or remote path empty reports failure (is_valid() is False) and changes no
\* file: a config that was at the path keeps its content.
C14_WriteFileMissingFieldChangesNothing ==
    [][(call.fn = "write_file" /\ ~call.done /\ call'.done /\ FieldMissing(call.in))
       => /\ ~call'.out.valid
          /\ dir' = dir
          /\ pidFiles' = pidFiles]_vars

\* C14 witness: write_file was called for /vol1 with only the connect ip empty,
\* and the valid config of /vol1 (for endpoint 10.0.0.1) is as it was.
C14_Witness ==
    /\ call.fn = "write_file" /\ call.done /\ ~call.out.valid
    /\ call.in.connect_ip = "" /\ call.in.remote_path = "/vol1"
    /\ call.in.accept_ip # "" /\ call.in.accept_port # 0 /\ call.in.connect_port # 0
    /\ LET st == open_with_remote_path(dir, "/vol1")
       IN st.found /\ st.connect_ip = "10.0.0.1" /\ st.accept_port = 1

\* C15: cleanup_stale_conf changes nothing when it examines an entry that is
\* not a regular file, lacks the product extension, lacks the product
\* signature or does not parse as a product config: the entry stays as it is,
\* no file is deleted and no process is signaled.
C15_SweepLeavesForeignEntries ==
    [][\A p \in Procs : \A name \in DOMAIN dir :
         (Examines(p, name) /\ ~ProductConfig(name))
         => /\ dir' = dir
            /\ pidFiles' = pidFiles
            /\ tunnels' = tunnels
            /\ signaled' = signaled
            /\ pc'[p] = "sweep"]_vars

\* C15 witness: the sweep is over; it has deleted the config of the unmounted
\* /vol1 and killed its tunnel, and the four entries that are not product
\* configs, which all name /vol1, are as they were.
C15_Witness ==
    \E p \in Procs :
        /\ pc[p] = "sweep" /\ todo[p] = {}
        /\ get_config_file_from_remote_path("/vol1") \notin DOMAIN dir
        /\ 7 \in signaled
        /\ \A name \in DOMAIN ForeignEntries :
             name \in DOMAIN dir /\ dir[name] = ForeignEntries[name]

\* kill_stunnel_pid is called in this step on a found config that names a PID
\* file.
KillsFound(st) ==
    /\ call.fn = "kill_stunnel_pid" /\ ~call.done /\ call'.done
    /\ st.found /\ st.pid_file # ""

\* os.kill raises in such a call: the PID file holds a pid and no process has it.
ProcessGone(st) ==
    \E n \in pid_from_file(pidFiles, st.pid_file) : n \notin AlivePids(tunnels)

\* C16 (as stated): when kill_stunnel_pid returns from a call on a found config
\* that names a PID file, the PID file is gone, whether a pid could be read and
\* whether the signal was sent or os.kill raised.
C16_PidFileRemoved ==
    [][LET st == parse_with_full_path(dir, call.in.name)
       IN KillsFound(st) => st.pid_file \notin DOMAIN pidFiles']_vars

\* C16 (amended): such a call always tries to remove the PID file; the file is
\* gone when it returns unless os.remove itself raised, which is swallowed and
\* leaves the PID files as they were.
C16_PidFileRemovedUnlessRemoveFails ==
    [][LET st == parse_with_full_path(dir, call.in.name)
       IN KillsFound(st)
          => \/ st.pid_file \notin DOMAIN pidFiles'
             \/ ~call'.out.rmPidOk /\ pidFiles' = pidFiles]_vars

\* C16 witness: kill_stunnel_pid has returned False because os.kill raised (pid 7
\* is in the PID file of /vol1 and no process has it), and the PID file is gone.
C16_Witness ==
    /\ call.fn = "kill_stunnel_pid" /\ call.done
    /\ call.in.name = get_config_file_from_remote_path("/vol1")
    /\ parse_with_full_path(dir, call.in.name).found
    /\ ~call.out.result /\ call.out.rmPidOk
    /\ signaled = {7} /\ 7 \notin AlivePids(tunnels)
    /\ PidFileName("/vol1") \notin DOMAIN pidFiles

\* C17: kill_stunnel_pid on a found config whose recorded process no longer
\* exists (os.kill raises "no such process") returns success, as it does when
\* the PID file is unreadable or the process was killed.
C17_GoneProcessIsSuccess ==
    [][LET st == parse_with_full_path(dir, call.in.name)
       IN (KillsFound(st) /\ ProcessGone(st)) => call'.out.result]_vars

\* C18: from the creator's start_stunnel to the end of its mount command, while
\* the path is not yet in the mount table, no other invocation's sweep deletes
\* the config the creator wrote or kills the tunnel it started: the config is
\* there with the creator's endpoint and port, its PID file records the
\* tunnel's process, and that process runs and has not been signaled.
C18_CreatedTunnelSurvivesWindow ==
    \A p \in Procs :
        (pc[p] = "mountcmd" /\ hist[p].spawned # {})
        => LET st == open_with_remote_path(dir, args[p].mount_path)
           IN /\ st.found
              /\ st.connect_ip = args[p].ip_address
              /\ st.accept_port = mount_port[p]
              /\ pid_from_file(pidFiles, st.pid_file) = hist[p].spawned
              /\ hist[p].spawned \subseteq AlivePids(tunnels)
              /\ hist[p].spawned \cap signaled = {}

\* C18 witness: the creator's mount command runs, its path is not in the mount
\* table, and another tunnel-mode mount, whose sweep would find the creator's
\* config unmounted, waits for the lock.
C18_Witness ==
    \E p, q \in Procs :
        /\ p # q
        /\ pc[p] = "mountcmd" /\ hist[p].spawned # {}
        /\ ~is_share_mounted(mounts, LOOPBACK_ADDRESS, args[p].mount_path, ANY_PORT)
        /\ TunnelMount(q) /\ pc[q] = "lock2"

\* C19: every tunnel process the tool started and that has not been killed is
\* tracked: the config of its remote path is there and the PID file it names
\* records that process, so that a later sweep can kill it; also after a tunnel
\* was created for a path that had a config for another endpoint.
C19_EveryRunningTunnelTracked ==
    \A t \in tunnels :
        LET st == open_with_remote_path(dir, t.path)
        IN /\ st.found
           /\ st.pid_file # ""
           /\ pid_from_file(pidFiles, st.pid_file) = {t.pid}

\* C20: every unlock() an invocation calls, in run(), in mount() or in the
\* exception handler, is called while that invocation holds the lock: no release
\* without an acquire before it, and no second release for one acquire.
C20_UnlockOnlyWhileHolding ==
    \A p \in Procs : ~hist[p].badUnlock

\* C21: with every external command terminating, every invocation that waits
\* for the system-wide lock eventually holds it, every invocation eventually
\* returns, and from then on the lock is free: no deadlock and no leaked lock.
C21_EveryInvocationTerminates ==
    /\ \A p \in Procs : (pc[p] \in {"lock1", "lock2"}) ~> (p \in lockHolder)
    /\ <>[](lockHolder = {} /\ \A p \in Procs : pc[p] = "done")

\* C21 witness: an invocation waits at its first lock() while the other one
\* holds the lock and its mount command, run under the lock, has not returned.
C21_Witness ==
    \E p, q \in Procs :
        /\ p # q
        /\ pc[q] = "lock1"
        /\ lockHolder = {p} /\ cmd[p] = "running"

====
